---- MODULE Spec2Model ----
(***************************************************************************)
(* Model of the chunked media upload client, twitter_mcp/media.py          *)
(* (class MediaManager), and of its caller post_twitter in server.py.      *)
(*                                                                         *)
(* One MediaManager instance (chunk_size, headers) serves the uploads of   *)
(* the set Uploads.  An upload is one call of upload_media (file-backed)   *)
(* or upload_media_from_bytes (memory-backed).  Every network call         *)
(* (requests.post) blocks its caller, so an upload is modelled as one      *)
(* action per piece of code that runs between two network calls: the call  *)
(* entry up to the initialize request, and the handling of each response   *)
(* up to the next request or to the return/raise.                          *)
(***************************************************************************)
EXTENDS Integers, Sequences, FiniteSets

(* ---------------------------------------------------------------- bounds *)

\* longest payload, in bytes
MaxLen == 3
\* largest positive chunk_size a manager is constructed with
MaxChunkSize == 3
\* chunk sizes below zero a manager is constructed with: -MaxNegChunk .. -1
MaxNegChunk == 2
\* longest payload of two uploads run at once
MaxConcurrentLen == 2
\* an upload whose loop never ends is followed up to this segment index
MaxAppends == 3

\* media.py:20  DEFAULT_CHUNK_SIZE = 1024 * 1024
DEFAULT_CHUNK_SIZE == 1048576

Uploads == {1, 2}
Bytes == {"a", "b"}
Ids == {"m1", "m2"}
\* Python's None (a missing key of the response body, an unset local)
None == "None"
\* what response.json().get('data', {}).get('id') can be
BodyIds == Ids \cup {"", None}
Statuses == {200, 201, 401}
ChunkSizes == ((0 - MaxNegChunk)..MaxChunkSize) \cup {DEFAULT_CHUNK_SIZE}

RECURSIVE SeqsUpTo(_)
SeqsUpTo(n) ==
  IF n = 0 THEN {<<>>}
  ELSE LET S == SeqsUpTo(n - 1)
       IN S \cup {Append(s, b) : s \in {t \in S : Len(t) = n - 1}, b \in Bytes}

Payloads == SeqsUpTo(MaxLen)
ConcurrentPayloads == SeqsUpTo(MaxConcurrentLen)

Min(a, b) == IF a < b THEN a ELSE b
Max(a, b) == IF a > b THEN a ELSE b

VARIABLES
  chunk_size,     \* self.chunk_size
  headers,        \* self.headers
  pc,             \* where each upload stands
  source,         \* "file" (upload_media) or "bytes" (upload_media_from_bytes)
  data,           \* the payload: the file's content, or media_data
  media_id,       \* local media_id of the upload
  segment_index,  \* local segment_index of _upload_chunks / _upload_bytes
  offset,         \* file position of f (file), local offset (bytes)
  requests,       \* the requests the upload has issued, with their responses
  result,         \* the value returned to the caller
  error           \* the exception raised to the caller

vars == <<chunk_size, headers, pc, source, data, media_id, segment_index,
          offset, requests, result, error>>

manager == <<chunk_size, headers>>

(* ------------------------------------------------------- pure operations *)

\* bytes slicing data[start:stop] as Python computes it
PyIndex(n, i) == IF i < 0 THEN Max(i + n, 0) ELSE Min(i, n)

PySlice(d, start, stop) ==
  LET lo == PyIndex(Len(d), start)
      hi == PyIndex(Len(d), stop)
  IN IF lo >= hi THEN <<>> ELSE SubSeq(d, lo + 1, hi)

\* f.read(size) at file position pos: a negative size reads to end of file
FileRead(d, pos, size) ==
  IF size < 0 THEN SubSeq(d, pos + 1, Len(d))
  ELSE SubSeq(d, pos + 1, Min(pos + size, Len(d)))

\* the chunk the loop head produces at offset off
NextChunk(src, d, off, size) ==
  IF src = "file" THEN FileRead(d, off, size) ELSE PySlice(d, off, off + size)

\* mutant: the memory-backed loop also runs at offset = total_size
LoopContinuesInclusive(src, d, off, chunk) ==
  IF src = "file" THEN chunk # <<>> ELSE off <= Len(d)

\* whether the loop body runs: `if not chunk: break` / `while offset < total_size`
LoopContinues(src, d, off, chunk) ==
  IF src = "file" THEN chunk # <<>> ELSE off < Len(d)

\* the offset once the chunk is produced: f.read advances the file position
OffsetAfterRead(src, off, chunk) ==
  IF src = "file" THEN off + Len(chunk) ELSE off

\* mutant: the offset is not advanced
OffsetAfterAppendStuck(src, off, size) == off

\* mutant: the offset steps one byte too far
OffsetAfterAppendSkip(src, off, size) ==
  IF src = "file" THEN off ELSE off + size + 1

\* the offset once the append returned: `offset += self.chunk_size`
OffsetAfterAppend(src, off, size) ==
  IF src = "file" THEN off ELSE off + size

\* mutant: the increment is lost
SameSegmentIndex(i) == i

\* `segment_index += 1`
NextSegmentIndex(i) == i + 1

\* mutant: the status of the initialize response is not looked at
InitializeStatusIgnored(status) == TRUE

\* _initialize_upload: `if response.status_code != 200: raise`
InitializeStatusOk(status) == status = 200

\* mutant: only a missing id is refused, an empty one passes
MediaIdNotNone(id) == id # None

\* _initialize_upload: `if not media_id: raise`
MediaIdOk(id) == id # None /\ id # ""

\* mutant: the status of an append response is not looked at
AppendStatusIgnored(status) == TRUE

\* _append_chunk: `if response.status_code != 200: raise`
AppendOk(status) == status = 200

\* mutant: the status of the finalize response is not looked at
FinalizeStatusIgnored(status) == TRUE

\* _finalize_upload: `if response.status_code != 200: raise`
FinalizeOk(status) == status = 200

\* mutant: the id of the finalize response is returned
ReturnFinalizeId(mid, finalize_id) == finalize_id

\* what upload_media / upload_media_from_bytes return: `return media_id`
ReturnValue(mid, finalize_id) == mid

\* mutant: a media id kept on the instance: the one another upload stored, if any
SharedMediaId(u, mid) ==
  IF \E v \in Uploads : v # u /\ media_id[v] # None
  THEN media_id[CHOOSE v \in Uploads : v # u /\ media_id[v] # None]
  ELSE mid

\* the media id an append or finalize request of upload u is addressed to:
\* the caller's local media_id, passed down as an argument
RequestTarget(u, mid) == mid

\* a request as issued: not answered yet, status and id are set by its response
InitializeRequest(total) ==
  [op |-> "initialize", target |-> None, total_bytes |-> total,
   index |-> -1, chunk |-> <<>>, answered |-> FALSE, status |-> 0, id |-> None]

AppendRequest(mid, idx, chunk) ==
  [op |-> "append", target |-> mid, total_bytes |-> -1,
   index |-> idx, chunk |-> chunk, answered |-> FALSE, status |-> 0, id |-> None]

FinalizeRequest(mid) ==
  [op |-> "finalize", target |-> mid, total_bytes |-> -1,
   index |-> -1, chunk |-> <<>>, answered |-> FALSE, status |-> 0, id |-> None]

\* the log with the response written into its last (pending) request
Answered(log, status, id) ==
  [log EXCEPT ![Len(log)] =
     [@ EXCEPT !.answered = TRUE, !.status = status, !.id = id]]

(* ------------------------------------------------------------------ Init *)

Init ==
  /\ chunk_size \in ChunkSizes
  /\ headers = "Bearer token"
  /\ pc = [u \in Uploads |-> "idle"]
  /\ source = [u \in Uploads |-> None]
  /\ data = [u \in Uploads |-> <<>>]
  /\ media_id = [u \in Uploads |-> None]
  /\ segment_index = [u \in Uploads |-> 0]
  /\ offset = [u \in Uploads |-> 0]
  /\ requests = [u \in Uploads |-> <<>>]
  /\ result = [u \in Uploads |-> None]
  /\ error = [u \in Uploads |-> None]

(* --------------------------------------------------------------- actions *)

Raise(u, e) ==
  /\ pc' = [pc EXCEPT ![u] = "raised"]
  /\ error' = [error EXCEPT ![u] = e]

\* the head of the loop of _upload_chunks / _upload_bytes for upload u with
\* media id mid, at segment index idx and offset off, with log the requests
\* answered so far:
\* either the next append request goes out, or the loop ends and
\* _finalize_upload issues its request
LoopHead(u, mid, idx, off, log) ==
  LET chunk == NextChunk(source[u], data[u], off, chunk_size)
  IN /\ segment_index' = [segment_index EXCEPT ![u] = idx]
     /\ IF LoopContinues(source[u], data[u], off, chunk)
        THEN /\ offset' = [offset EXCEPT ![u] = OffsetAfterRead(source[u], off, chunk)]
             /\ requests' = [requests EXCEPT
                               ![u] = Append(log, AppendRequest(RequestTarget(u, mid), idx, chunk))]
             /\ pc' = [pc EXCEPT ![u] = "append"]
        ELSE /\ offset' = [offset EXCEPT ![u] = OffsetAfterRead(source[u], off, chunk)]
             /\ requests' = [requests EXCEPT
                               ![u] = Append(log, FinalizeRequest(RequestTarget(u, mid)))]
             /\ pc' = [pc EXCEPT ![u] = "finalize"]

\* upload_media(file_path), up to its initialize request
UploadMedia(u, exists, content) ==
  /\ pc[u] = "idle"
  /\ source' = [source EXCEPT ![u] = "file"]
  /\ IF ~exists
     THEN /\ Raise(u, "FileNotFoundError")
          /\ UNCHANGED <<data, requests>>
     ELSE /\ data' = [data EXCEPT ![u] = content]
          /\ requests' = [requests EXCEPT ![u] = <<InitializeRequest(Len(content))>>]
          /\ pc' = [pc EXCEPT ![u] = "initialize"]
          /\ UNCHANGED error
  /\ UNCHANGED <<chunk_size, headers, media_id, segment_index, offset, result>>

\* upload_media_from_bytes(media_data, media_type), up to its initialize request
UploadMediaFromBytes(u, content) ==
  /\ pc[u] = "idle"
  /\ source' = [source EXCEPT ![u] = "bytes"]
  /\ data' = [data EXCEPT ![u] = content]
  /\ requests' = [requests EXCEPT ![u] = <<InitializeRequest(Len(content))>>]
  /\ pc' = [pc EXCEPT ![u] = "initialize"]
  /\ UNCHANGED <<chunk_size, headers, media_id, segment_index, offset, result, error>>

\* the initialize response arrives: the rest of _initialize_upload, then the
\* first pass through the loop head
InitializeResponse(u, status, id) ==
  /\ pc[u] = "initialize"
  /\ LET log == Answered(requests[u], status, id)
     IN IF ~InitializeStatusOk(status)
        THEN /\ Raise(u, "InitializeFailed")
             /\ requests' = [requests EXCEPT ![u] = log]
             /\ UNCHANGED <<media_id, segment_index, offset>>
        ELSE IF ~MediaIdOk(id)
        THEN /\ Raise(u, "NoMediaId")
             /\ requests' = [requests EXCEPT ![u] = log]
             /\ UNCHANGED <<media_id, segment_index, offset>>
        ELSE /\ media_id' = [media_id EXCEPT ![u] = id]
             /\ LoopHead(u, id, 0, 0, log)
             /\ UNCHANGED error
  /\ UNCHANGED <<chunk_size, headers, source, data, result>>

\* an append response arrives: the rest of _append_chunk, the end of the
\* loop body, then the next pass through the loop head
AppendResponse(u, status) ==
  /\ pc[u] = "append"
  /\ segment_index[u] < MaxAppends
  /\ LET log == Answered(requests[u], status, None)
     IN IF ~AppendOk(status)
        THEN /\ Raise(u, "AppendFailed")
             /\ requests' = [requests EXCEPT ![u] = log]
             /\ UNCHANGED <<segment_index, offset>>
        ELSE /\ LoopHead(u, media_id[u], NextSegmentIndex(segment_index[u]),
                         OffsetAfterAppend(source[u], offset[u], chunk_size), log)
             /\ UNCHANGED error
  /\ UNCHANGED <<chunk_size, headers, source, data, media_id, result>>

\* the finalize response arrives: the rest of _finalize_upload, then
\* `return media_id`
FinalizeResponse(u, status, id) ==
  /\ pc[u] = "finalize"
  /\ requests' = [requests EXCEPT ![u] = Answered(requests[u], status, id)]
  /\ IF ~FinalizeOk(status)
     THEN /\ Raise(u, "FinalizeFailed")
          /\ UNCHANGED result
     ELSE /\ pc' = [pc EXCEPT ![u] = "returned"]
          /\ result' = [result EXCEPT ![u] = ReturnValue(media_id[u], id)]
          /\ UNCHANGED error
  /\ UNCHANGED <<chunk_size, headers, source, data, media_id, segment_index, offset>>

Step(u) ==
  \/ \E exists \in BOOLEAN, content \in Payloads : UploadMedia(u, exists, content)
  \/ \E content \in Payloads : UploadMediaFromBytes(u, content)
  \/ \E status \in Statuses, id \in BodyIds : InitializeResponse(u, status, id)
  \/ \E status \in Statuses : AppendResponse(u, status)
  \/ \E status \in Statuses, id \in BodyIds : FinalizeResponse(u, status, id)

\* one caller at a time: a single upload on the manager
Next == Step(1)

Spec == Init /\ [][Next]_vars

\* requests.post blocks until the transport hands back a response: the
\* handling of the response of upload u, whichever request it answers
Responses(u) ==
  \/ \E status \in Statuses, id \in BodyIds : InitializeResponse(u, status, id)
  \/ \E status \in Statuses : AppendResponse(u, status)
  \/ \E status \in Statuses, id \in BodyIds : FinalizeResponse(u, status, id)

\* every request is answered in the end, so a pending response is handled
ResponsesArrive == \A u \in Uploads : WF_vars(Responses(u))

\* a single upload whose requests are all answered in the end
SpecFair == Init /\ [][Next]_vars /\ ResponsesArrive

\* Two callers at once on the one module-level media_manager of server.py.
\* post_twitter, its only user, uploads with upload_media_from_bytes; the
\* transport answers each request with success or with one failure status
\* (the other responses are explored under Spec).
ConcurrentStatuses == {200, 401}

ConcurrentStep(u) ==
  \/ \E content \in ConcurrentPayloads : UploadMediaFromBytes(u, content)
  \/ \E status \in ConcurrentStatuses, id \in Ids : InitializeResponse(u, status, id)
  \/ \E status \in ConcurrentStatuses : AppendResponse(u, status)
  \/ \E status \in ConcurrentStatuses, id \in Ids : FinalizeResponse(u, status, id)

NextConcurrent == \E u \in Uploads : ConcurrentStep(u)

SpecConcurrent == Init /\ [][NextConcurrent]_vars

(* ---------------------------------------------------------------- claims *)

\* what the claims read off the request log of an upload
Answer(r) == r.answered
InitializeSucceeded(r) == r.status = 200 /\ r.id \in Ids
Succeeded(r) == IF r.op = "initialize" THEN InitializeSucceeded(r) ELSE r.status = 200
IsAppend(r) == r.op = "append"
Appends(u) == SelectSeq(requests[u], IsAppend)
Last(log) == log[Len(log)]

RECURSIVE Concat(_)
Concat(chunks) ==
  IF chunks = <<>> THEN <<>> ELSE Head(chunks) \o Concat(Tail(chunks))

RECURSIVE SumLen(_)
SumLen(chunks) ==
  IF chunks = <<>> THEN 0 ELSE Len(Head(chunks)) + SumLen(Tail(chunks))

Chunks(u) == [k \in 1..Len(Appends(u)) |-> Appends(u)[k].chunk]

CeilDiv(s, c) == (s + c - 1) \div c

\* C1: the requests of an upload go out in the order initialize, appends,
\* finalize, each only after the one before it succeeded; an id is returned
\* only when initialize, every append and finalize succeeded, and an upload
\* that ends otherwise raises and returns nothing.
C1_OrderedAllOrNothing ==
  \A u \in Uploads :
    LET log == requests[u]
    IN /\ \A i \in 1..Len(log) :
            /\ (log[i].op = "initialize") <=> (i = 1)
            /\ (log[i].op = "finalize") => (i = Len(log))
            /\ log[i].op \in {"initialize", "append", "finalize"}
            /\ (i > 1) => Succeeded(log[i - 1])
       /\ (result[u] # None) <=> (pc[u] = "returned")
       /\ (pc[u] = "returned") =>
            /\ Len(log) >= 2
            /\ Last(log).op = "finalize"
            /\ \A i \in 1..Len(log) : Succeeded(log[i])
            /\ result[u] \in Ids
       /\ (\E i \in 1..Len(log) : Answer(log[i]) /\ ~Succeeded(log[i])) =>
            pc[u] = "raised"
       /\ (pc[u] = "raised") => (result[u] = None /\ error[u] # None)

C1_Witness ==
  /\ pc[1] = "returned"
  /\ Len(Appends(1)) = 2
  /\ Len(requests[1]) = 4

\* C2: with a chunk size C > 0, once every append has succeeded and the loop
\* has ended, ceil(S/C) appends were issued, every chunk is 1..C bytes long,
\* and the chunks in segment order concatenate to the payload (so their
\* lengths sum to S), on the file-backed and on the memory-backed path.
C2_ChunkingExact ==
  \A u \in Uploads :
    (chunk_size > 0 /\ pc[u] \in {"finalize", "returned"}) =>
      /\ Len(Appends(u)) = CeilDiv(Len(data[u]), chunk_size)
      /\ \A k \in 1..Len(Appends(u)) :
           /\ Len(Appends(u)[k].chunk) >= 1
           /\ Len(Appends(u)[k].chunk) <= chunk_size
      /\ Concat(Chunks(u)) = data[u]
      /\ SumLen(Chunks(u)) = Len(data[u])

C2_Witness ==
  /\ pc[1] = "returned"
  /\ source[1] = "bytes"
  /\ chunk_size = 2
  /\ Len(data[1]) = 3
  /\ Len(Appends(1)) = 2

\* C3: the k-th append request of an upload carries segment index k-1, and
\* it is issued only after the append before it was answered with success.
C3_SegmentIndices ==
  \A u \in Uploads :
    \A k \in 1..Len(Appends(u)) :
      /\ Appends(u)[k].index = k - 1
      /\ requests[u][k + 1] = Appends(u)[k]
      /\ (k > 1) => Appends(u)[k - 1].status = 200

C3_Witness ==
  /\ Len(Appends(1)) = 3
  /\ Appends(1)[3].index = 2
  /\ Appends(1)[3].status = 200

\* C4: when the initialize response is not a success (a status outside 2xx,
\* or no identifier in the body), the upload raises and has issued neither
\* an append nor a finalize request.
C4_InitializeFailureStops ==
  \A u \in Uploads :
    LET log == requests[u]
    IN (/\ Len(log) >= 1
        /\ Answer(log[1])
        /\ (log[1].status \notin 200..299 \/ log[1].id \in {None, ""})) =>
         /\ pc[u] = "raised"
         /\ Len(log) = 1
         /\ result[u] = None

C4_Witness ==
  /\ pc[1] = "raised"
  /\ Len(requests[1]) = 1
  /\ requests[1][1].status = 401
  /\ requests[1][1].id = "m1"

\* C5: when the append for segment index k is answered with a failure, it is
\* the last request of the upload: no segment is sent again, none with a
\* greater index is sent, finalize is not called, and the upload raises.
C5_AppendFailureAborts ==
  \A u \in Uploads :
    LET log == requests[u]
    IN \A i \in 1..Len(log) :
         (log[i].op = "append" /\ Answer(log[i]) /\ log[i].status # 200) =>
           /\ i = Len(log)
           /\ \A j \in 1..Len(log) :
                (j # i /\ log[j].op = "append") => log[j].index < log[i].index
           /\ \A j \in 1..Len(log) : log[j].op # "finalize"
           /\ pc[u] = "raised"
           /\ error[u] = "AppendFailed"
           /\ result[u] = None

C5_Witness ==
  /\ pc[1] = "raised"
  /\ chunk_size = 1
  /\ Len(data[1]) = 3
  /\ Len(Appends(1)) = 2
  /\ Appends(1)[2].status = 401

\* C6: for an empty payload, a successful initialize is followed directly by
\* the finalize request, with no append, and a successful finalize returns
\* the id.
C6_EmptyPayload ==
  \A u \in Uploads :
    LET log == requests[u]
    IN (/\ data[u] = <<>>
        /\ Len(log) >= 1
        /\ InitializeSucceeded(log[1])) =>
         /\ Len(log) = 2
         /\ log[2].op = "finalize"
         /\ Appends(u) = <<>>
         /\ (log[2].status = 200) => (pc[u] = "returned" /\ result[u] = log[1].id)

C6_Witness ==
  /\ pc[1] = "returned"
  /\ source[1] = "bytes"
  /\ data[1] = <<>>
  /\ Len(requests[1]) = 2

\* C7 as stated: the id returned equals the id in the finalize response.
C7_ReturnsFinalizeId ==
  \A u \in Uploads :
    (pc[u] = "returned") => result[u] = Last(requests[u]).id

\* C7, amended: the id returned equals the id in the initialize response,
\* which is the id the finalize request was addressed to.
C7_ReturnsInitializeId ==
  \A u \in Uploads :
    (pc[u] = "returned") =>
      /\ result[u] = requests[u][1].id
      /\ result[u] = Last(requests[u]).target

C7_Witness ==
  /\ pc[1] = "returned"
  /\ requests[1][1].id = "m1"
  /\ Last(requests[1]).id = "m2"

\* the initialize phase of upload u has ended, with success or with an error
InitializeEnded(u) == Len(requests[u]) >= 1 /\ Answer(requests[u][1])
InitializePassed(u) == media_id[u] # None /\ Len(requests[u]) >= 2
InitializeRaised(u) ==
  /\ pc[u] = "raised"
  /\ Len(requests[u]) = 1
  /\ error[u] \in {"InitializeFailed", "NoMediaId"}

\* C8 as stated: initialize succeeds exactly when the status is 2xx and the
\* body holds a non-empty identifier, and raises for every other response.
C8_SucceedsIff2xx ==
  \A u \in Uploads :
    InitializeEnded(u) =>
      LET r == requests[u][1]
      IN IF r.status \in 200..299 /\ r.id \notin {None, ""}
         THEN InitializePassed(u)
         ELSE InitializeRaised(u)

\* C8, amended: initialize succeeds exactly when the status is 200 and the
\* body holds a non-empty identifier, and raises for every other response.
C8_SucceedsIff200 ==
  \A u \in Uploads :
    InitializeEnded(u) =>
      LET r == requests[u][1]
      IN IF r.status = 200 /\ r.id \notin {None, ""}
         THEN InitializePassed(u) /\ media_id[u] = r.id
         ELSE InitializeRaised(u)

C8_Witness ==
  /\ InitializeRaised(1)
  /\ requests[1][1].status = 201
  /\ requests[1][1].id = "m1"

\* everything upload u holds: its arguments, locals, requests and outcome
Local(u) ==
  <<pc[u], source[u], data[u], media_id[u], segment_index[u], offset[u],
    requests[u], result[u], error[u]>>

\* the requests of upload u are its own: every append and finalize goes to
\* the id its own initialize returned, the appends carry 0, 1, 2, ... and
\* the k-th chunk is the k-th slice of its own payload
C9_OwnRequests ==
  \A u \in Uploads :
    LET log == requests[u]
    IN /\ \A i \in 2..Len(log) : log[i].target = log[1].id
       /\ (Len(log) >= 1) => log[1].total_bytes = Len(data[u])
       /\ \A k \in 1..Len(Appends(u)) :
            /\ Appends(u)[k].index = k - 1
            /\ Appends(u)[k].chunk =
                 PySlice(data[u], (k - 1) * chunk_size, k * chunk_size)
       /\ (media_id[u] # None) => media_id[u] = log[1].id

\* C9: two uploads interleaved at their network calls on one manager do not
\* interfere: the requests of each are its own, a step changes the state
\* of one upload only, and no step writes the manager's fields, the only
\* state the uploads share.
C9_NoInterference ==
  /\ []C9_OwnRequests
  /\ [][/\ manager' = manager
        /\ Cardinality({u \in Uploads : Local(u)' # Local(u)}) <= 1]_vars

C9_Witness ==
  /\ pc[1] = "append" /\ pc[2] = "append"
  /\ Len(Appends(1)) = 2 /\ Len(Appends(2)) = 2
  /\ media_id[1] # media_id[2]
  /\ data[1] # data[2]
  /\ chunk_size = 1

\* C10: an upload is never driven by a chunk size of zero or below: once an
\* upload of a non-empty payload has passed initialize and entered its
\* chunking loop, the manager's chunk size is a positive integer.
C10_ChunkSizePositive ==
  \A u \in Uploads :
    (Len(requests[u]) >= 2 /\ data[u] # <<>>) => chunk_size >= 1

Terminated(u) == pc[u] \in {"returned", "raised"}

\* with a chunk size C > 0 an upload never issues more than ceil(S/C) appends
C11_ChunksFinite ==
  \A u \in Uploads :
    (chunk_size > 0) => Len(Appends(u)) <= CeilDiv(Len(data[u]), chunk_size)

\* C11: with a chunk size C > 0 and every request answered in the end, the
\* chunk sequence is finite (at most ceil(S/C) appends are ever issued) and
\* an upload that has started eventually ends, returning the id or raising.
C11_Terminates ==
  /\ []C11_ChunksFinite
  /\ \A u \in Uploads :
       (chunk_size > 0 /\ pc[u] # "idle") ~> Terminated(u)

C11_Witness ==
  /\ pc[1] = "returned"
  /\ source[1] = "file"
  /\ chunk_size = 1
  /\ Len(data[1]) = MaxLen
  /\ Len(Appends(1)) = MaxLen

====
